---- MODULE Spec2Model ----
(***************************************************************************)
(* Model of main.py of instagram-archive-exif: the manifest flattener     *)
(* (get_metadata_for_content_types and its helpers), the preview sort,    *)
(* the tag mapper (get_exif_tags), the batch materializer (process_files) *)
(* and the run over several manifests (process_json_file, main).          *)
(*                                                                         *)
(* Strings are sequences of tokens.  A URI or path string is a sequence   *)
(* of the tokens "/", "?" and name pieces such as "https:" or "a.jpg"; a  *)
(* title is a sequence of Unicode code points.  A Python dict is a        *)
(* function whose DOMAIN is the set of keys present.  An optional value   *)
(* (None or a value) is a record [some, v].                               *)
(***************************************************************************)
EXTENDS Integers, Sequences, FiniteSets, TLC

VARIABLES
    args,               \* main: args.arguments, the manifest paths in order
    disk,               \* what open()/json.load() finds at each manifest path
    exiftool_installed, \* whether shutil.which("exiftool") finds the tool
    argi,               \* main: index of the path being processed
    pc,                 \* position inside process_json_file / process_files
    files,              \* process_json_file: the list `files` (sorted in place)
    fi,                 \* process_files: index of `file` in image_files
    fs,                 \* files under result/: destination -> [src, tags, mtime]
    dirs,               \* directories created under result/
    clock,              \* wall clock read by datetime.now()
    log,                \* messages printed to the console / progress log
    io,                 \* history of the file operations performed under result/
    outcome,            \* history: how the processing of each argument ended
    batchlen,           \* history: length of the batch each argument started
    parsed_json,        \* flattener alone: the manifest given to the flattener
    metadata,           \* flattener alone: what the flattener returned
    fpc,                \* flattener alone: "input", "returned" or "raised"
    file,               \* tag mapper alone: the ImageFile given to get_exif_tags
    tags,               \* tag mapper alone: the result of get_exif_tags
    tpc                 \* tag mapper alone: "input", "returned" or "raised"

vars == <<args, disk, exiftool_installed, argi, pc, files, fi, fs, dirs, clock,
          log, io, outcome, batchlen, parsed_json, metadata, fpc, file, tags, tpc>>

runVars == <<args, disk, exiftool_installed, argi, pc, files, fi, fs, dirs, clock,
             log, io, outcome, batchlen>>

flatVars == <<parsed_json, metadata, fpc>>

tagVars == <<file, tags, tpc>>

-----------------------------------------------------------------------------
(* Bounds of the model *)

\* most entries of a manifest given to the flattener alone
MaxEntries == 2

\* most children of a grouped post given to the flattener alone
MaxMedia == 2

\* most entries of the manifest of a single batch
MaxBatch == 2

\* most manifest paths on the command line
MaxArgs == 2

\* value of the wall clock when the run starts
ClockStart == 5

-----------------------------------------------------------------------------
(* Python values *)

None == [some |-> FALSE, v |-> <<>>]

Some(x) == [some |-> TRUE, v |-> x]

\* dict.get(key, None)
Get(d, key) == IF key \in DOMAIN d THEN Some(d[key]) ELSE None

EmptyDict == <<>>

\* the dict with the key present only when the optional value is
Field(key, opt) == IF opt.some THEN key :> opt.v ELSE EmptyDict

\* s contains sub as a contiguous piece: Python's `sub in s`
Contains(s, sub) ==
    \E i \in 1..(Len(s) - Len(sub) + 1) : SubSeq(s, i, i + Len(sub) - 1) = sub

\* s.split(sep)[0]: the part of s before the first sep
RECURSIVE SplitFirst(_, _)
SplitFirst(s, sep) ==
    IF s = <<>> \/ Head(s) = sep THEN <<>>
    ELSE <<Head(s)>> \o SplitFirst(Tail(s), sep)

-----------------------------------------------------------------------------
(* pathlib: a path is [anchor, parts], parts the components between "/" *)

\* the components of a path string: empty components (repeated or trailing
\* "/") and "." components are dropped, as pathlib does
RECURSIVE PathParts(_, _)
PathParts(s, cur) ==
    LET done == IF cur = <<>> \/ cur = <<".">> THEN <<>> ELSE <<cur>>
    IN  IF s = <<>> THEN done
        ELSE IF Head(s) = "/" THEN done \o PathParts(Tail(s), <<>>)
        ELSE PathParts(Tail(s), Append(cur, Head(s)))

\* pathlib.Path(s)
Path(s) ==
    [anchor |-> s # <<>> /\ Head(s) = "/", parts |-> PathParts(s, <<>>)]

\* str(path)
RECURSIVE JoinParts(_)
JoinParts(parts) ==
    IF parts = <<>> THEN <<>>
    ELSE IF Len(parts) = 1 THEN parts[1]
    ELSE parts[1] \o <<"/">> \o JoinParts(Tail(parts))

PathStr(p) ==
    IF p.parts = <<>> THEN (IF p.anchor THEN <<"/">> ELSE <<".">>)
    ELSE (IF p.anchor THEN <<"/">> ELSE <<>>) \o JoinParts(p.parts)

\* base / s: an absolute right operand replaces the base
PathJoin(p, s) ==
    IF s # <<>> /\ Head(s) = "/" THEN Path(s)
    ELSE [anchor |-> p.anchor, parts |-> p.parts \o PathParts(s, <<>>)]

\* path.parent
PathParent(p) ==
    IF p.parts = <<>> THEN p
    ELSE [anchor |-> p.anchor, parts |-> SubSeq(p.parts, 1, Len(p.parts) - 1)]

\* path.name, which is also path.stem followed by path.suffix
PathName(p) == IF p.parts = <<>> THEN <<>> ELSE p.parts[Len(p.parts)]

\* pathlib.Path.cwd(): the export root the tool is run from
Cwd == [anchor |-> TRUE, parts |-> << <<"home">> >>]

\* path.absolute()
PathAbsolute(p) ==
    IF p.anchor THEN p ELSE [anchor |-> TRUE, parts |-> Cwd.parts \o p.parts]

-----------------------------------------------------------------------------
(* str.encode("latin-1").decode("utf-8") *)

\* str.encode("latin-1"): one byte per code point, fails above U+00FF
Latin1Encode(t) ==
    IF \E i \in 1..Len(t) : t[i] > 255
    THEN [ok |-> FALSE, v |-> <<>>]
    ELSE [ok |-> TRUE, v |-> t]

IsCont(b) == b >= 128 /\ b <= 191

\* bytes.decode("utf-8"), strict: sequences of one to four bytes, no
\* overlong forms, no surrogates, nothing above U+10FFFF
RECURSIVE Utf8Decode(_)
Utf8Decode(b) ==
    IF b = <<>> THEN [ok |-> TRUE, v |-> <<>>]
    ELSE
      LET b1 == b[1]
          n  == IF b1 < 128 THEN 1
                ELSE IF b1 >= 194 /\ b1 <= 223 THEN 2
                ELSE IF b1 >= 224 /\ b1 <= 239 THEN 3
                ELSE IF b1 >= 240 /\ b1 <= 244 THEN 4
                ELSE 0
          wellFormed ==
              /\ n > 0
              /\ Len(b) >= n
              /\ \A i \in 2..n : IsCont(b[i])
              /\ (b1 = 224 => b[2] >= 160)
              /\ (b1 = 237 => b[2] <= 159)
              /\ (b1 = 240 => b[2] >= 144)
              /\ (b1 = 244 => b[2] <= 143)
          cp == IF n = 1 THEN b1
                ELSE IF n = 2 THEN (b1 - 192) * 64 + (b[2] - 128)
                ELSE IF n = 3 THEN (b1 - 224) * 4096 + (b[2] - 128) * 64 + (b[3] - 128)
                ELSE (b1 - 240) * 262144 + (b[2] - 128) * 4096
                     + (b[3] - 128) * 64 + (b[4] - 128)
      IN  IF ~wellFormed THEN [ok |-> FALSE, v |-> <<>>]
          ELSE LET rest == Utf8Decode(SubSeq(b, n + 1, Len(b)))
               IN  IF rest.ok THEN [ok |-> TRUE, v |-> <<cp>> \o rest.v]
                   ELSE rest

\* title.encode("latin-1").decode("utf-8"): ok is FALSE when either step raises
EncodeDecode(t) ==
    LET enc == Latin1Encode(t)
    IN  IF enc.ok THEN Utf8Decode(enc.v) ELSE enc

-----------------------------------------------------------------------------
(* The manifest flattener *)

CONTENT_TYPE_KEYS ==
    <<"ig_archived_post_media", "ig_stories", "ig_profile_picture",
      "ig_recently_deleted_media">>

HttpsPrefix == <<"https:", "/", "/">>

\* the dataclass ImageFile
ImageFile(content_type, path, title, created_at, exif_data) ==
    [content_type |-> content_type, path |-> path, title |-> title,
     created_at |-> created_at, exif_data |-> exif_data]

\* entry.get("media_metadata", {}).get("photo_metadata", {}).get("exif_data", {})
get_exif_data_for_entry(entry) ==
    LET mm == IF "media_metadata" \in DOMAIN entry
              THEN entry["media_metadata"] ELSE EmptyDict
        pm == IF "photo_metadata" \in DOMAIN mm THEN mm["photo_metadata"] ELSE EmptyDict
    IN  IF "exif_data" \in DOMAIN pm THEN pm["exif_data"] ELSE EmptyDict

\* `if timestamp` is false for a missing and for a zero creation_timestamp
HasTimestamp(entry) ==
    "creation_timestamp" \in DOMAIN entry /\ entry["creation_timestamp"] # 0

\* datetime.fromtimestamp(timestamp) if timestamp else datetime.now()
get_timestamp_for_entry(entry, now) ==
    IF HasTimestamp(entry) THEN entry["creation_timestamp"] ELSE now

\* get_path_for_entry without the test for "https://"
PathForAnyUri(entry, archive_path) ==
    IF "uri" \notin DOMAIN entry \/ entry["uri"] = <<>>
    THEN None
    ELSE Some(SplitFirst(PathStr(PathJoin(archive_path, entry["uri"])), "?"))

\* None for a missing, empty or https:// uri, else the joined path string
\* cut at the first "?"
get_path_for_entry(entry, archive_path) ==
    IF \/ "uri" \notin DOMAIN entry
       \/ entry["uri"] = <<>>
       \/ Contains(entry["uri"], HttpsPrefix)
    THEN None
    ELSE Some(SplitFirst(PathStr(PathJoin(archive_path, entry["uri"])), "?"))

\* the record put in front of the list instead of at its end
PrependIfPath(md, f) ==
    IF f.path.some /\ f.path.v # <<>> THEN <<f>> \o md ELSE md

\* metadata.append(file), done only `if file.path and file.path != ""`
AppendIfPath(md, f) ==
    IF f.path.some /\ f.path.v # <<>> THEN Append(md, f) ELSE md

\* the title of a child of a grouped post (lines 89-94): the child's own
\* title through encode/decode when it is non-empty, else the parent's
\* title as read from the JSON
MediaTitle(media, parent_entry_title) ==
    LET title == Get(media, "title")
    IN  IF title.some /\ title.v # <<>>
        THEN LET r == EncodeDecode(title.v)
             IN  [ok |-> r.ok, v |-> Some(r.v)]
        ELSE [ok |-> TRUE, v |-> parent_entry_title]

\* the title of a single item (lines 110-112)
SingleTitle(parent_entry_title) ==
    IF parent_entry_title.some /\ parent_entry_title.v # <<>>
    THEN LET r == EncodeDecode(parent_entry_title.v)
         IN  [ok |-> r.ok, v |-> Some(r.v)]
    ELSE [ok |-> TRUE, v |-> None]

\* The loops keep acc = [metadata, clock, raised]: the list built so far,
\* the wall clock, and whether an exception has left the function.

\* one pass of `for media in entry["media"]`
MediaStep(media, content_type, parent_entry_title, base, acc) ==
    LET t == MediaTitle(media, parent_entry_title)
    IN  IF ~t.ok THEN [acc EXCEPT !.raised = TRUE]
        ELSE LET f == ImageFile(content_type,
                                get_path_for_entry(media, base),
                                t.v,
                                get_timestamp_for_entry(media, acc.clock),
                                get_exif_data_for_entry(media))
             IN  [metadata |-> AppendIfPath(acc.metadata, f),
                  clock |-> IF HasTimestamp(media) THEN acc.clock ELSE acc.clock + 1,
                  raised |-> FALSE]

RECURSIVE MediaLoop(_, _, _, _, _, _)
MediaLoop(medias, j, content_type, parent_entry_title, base, acc) ==
    IF acc.raised \/ j > Len(medias) THEN acc
    ELSE MediaLoop(medias, j + 1, content_type, parent_entry_title, base,
                   MediaStep(medias[j], content_type, parent_entry_title, base, acc))

\* the else branch: a single item
SingleStep(entry, content_type, parent_entry_title, base, acc) ==
    LET path == get_path_for_entry(entry, base)
        t == SingleTitle(parent_entry_title)
    IN  IF ~t.ok THEN [acc EXCEPT !.raised = TRUE]
        ELSE LET f == ImageFile(content_type, path, t.v,
                                get_timestamp_for_entry(entry, acc.clock),
                                get_exif_data_for_entry(entry))
             IN  [metadata |-> AppendIfPath(acc.metadata, f),
                  clock |-> IF HasTimestamp(entry) THEN acc.clock ELSE acc.clock + 1,
                  raised |-> FALSE]

\* one pass of `for entry in parsed_json[content_type]`
EntryStep(entry, content_type, base, acc) ==
    LET parent_entry_title == Get(entry, "title")
    IN  IF "media" \in DOMAIN entry
        THEN MediaLoop(entry["media"], 1, content_type, parent_entry_title, base, acc)
        ELSE SingleStep(entry, content_type, parent_entry_title, base, acc)

RECURSIVE EntryLoop(_, _, _, _, _)
EntryLoop(entries, i, content_type, base, acc) ==
    IF acc.raised \/ i > Len(entries) THEN acc
    ELSE EntryLoop(entries, i + 1, content_type, base,
                   EntryStep(entries[i], content_type, base, acc))

\* `for content_type in CONTENT_TYPE_KEYS`, absent categories skipped
RECURSIVE ContentTypeLoop(_, _, _, _, _)
ContentTypeLoop(json, keys, k, base, acc) ==
    IF acc.raised \/ k > Len(keys) THEN acc
    ELSE ContentTypeLoop(json, keys, k + 1, base,
             IF keys[k] \notin DOMAIN json THEN acc
             ELSE EntryLoop(json[keys[k]], 1, keys[k], base, acc))

\* get_metadata_for_content_types, started when the clock reads now
get_metadata_for_content_types(json, base_archive_path, now) ==
    ContentTypeLoop(json, CONTENT_TYPE_KEYS, 1, base_archive_path,
                    [metadata |-> <<>>, clock |-> now, raised |-> FALSE])

-----------------------------------------------------------------------------
(* The preview and the tag mapper *)

\* list.sort(key=...) is stable: insert each element after the elements
\* that do not compare greater
RECURSIVE InsertSorted(_, _)
InsertSorted(sorted, x) ==
    IF sorted = <<>> THEN <<x>>
    ELSE IF x.created_at < Head(sorted).created_at THEN <<x>> \o sorted
    ELSE <<Head(sorted)>> \o InsertSorted(Tail(sorted), x)

RECURSIVE SortByCreatedAt(_, _)
SortByCreatedAt(list, sorted) ==
    IF list = <<>> THEN sorted
    ELSE SortByCreatedAt(Tail(list), InsertSorted(sorted, Head(list)))

\* a preview that prints the table without sorting the list
PreviewWithoutSort(image_files) == image_files

\* display_operation_preview: what it leaves in image_files, which it
\* sorts in place by created_at before printing the table
display_operation_preview(image_files) == SortByCreatedAt(image_files, <<>>)

\* datetime.strftime("%Y:%m:%d %H:%M:%S") of a time given in seconds since
\* the epoch, in a zone without offset: <<year, month, day, hour, min, sec>>
to_exif_datetime(t) ==
    LET days == t \div 86400
        secs == t % 86400
        z    == days + 719468
        era  == z \div 146097
        doe  == z % 146097
        yoe  == (doe - doe \div 1460 + doe \div 36524 - doe \div 146096) \div 365
        doy  == doe - (365 * yoe + yoe \div 4 - yoe \div 100)
        mp   == (5 * doy + 2) \div 153
        d    == doy - (153 * mp + 2) \div 5 + 1
        m    == IF mp < 10 THEN mp + 3 ELSE mp - 9
        y    == yoe + era * 400 + (IF m <= 2 THEN 1 ELSE 0)
    IN  <<y, m, d, secs \div 3600, (secs % 3600) \div 60, secs % 60>>

\* tags[tag] = file.exif_data[key], done `if guard in file.exif_data`;
\* reading a key that is not in the dict raises KeyError
SetTag(r, exif_data, guard, tag, key) ==
    IF ~r.ok \/ guard \notin DOMAIN exif_data THEN r
    ELSE IF key \notin DOMAIN exif_data THEN [ok |-> FALSE, v |-> r.v]
    ELSE [ok |-> TRUE, v |-> (tag :> exif_data[key]) @@ r.v]

\* get_exif_tags: ok is FALSE when it raises
get_exif_tags(f) ==
    LET e  == f.exif_data
        t0 == [ok |-> TRUE, v |-> ("AllDates" :> to_exif_datetime(f.created_at))]
        t1 == IF "latitude" \in DOMAIN e /\ "longitude" \in DOMAIN e
              THEN [ok |-> TRUE,
                    v |-> ("GPSLatitude" :> e["latitude"])
                          @@ ("GPSLongitude" :> e["longitude"]) @@ t0.v]
              ELSE t0
        t2 == SetTag(t1, e, "iso", "ISO", "iso")
        t3 == SetTag(t2, e, "lens_make", "LensMake", "make")
        t4 == SetTag(t3, e, "lens_model", "LensModel", "model")
        t5 == SetTag(t4, e, "scene_type", "SceneType", "scene_type")
        t6 == SetTag(t5, e, "aperture", "ApertureValue", "aperture")
        t7 == SetTag(t6, e, "shutter_speed", "ShutterSpeedValue", "shutter_speed")
        t8 == SetTag(t7, e, "focal_length", "FocalLength", "focal_length")
        t9 == SetTag(t8, e, "metering_mode", "MeteringMode", "metering_mode")
    IN  IF t9.ok /\ f.title.some /\ f.title.v # <<>>
        THEN [ok |-> TRUE,
              v |-> ("iptc:Keywords" :> "Instagram")
                    @@ ("iptc:OriginatingProgram" :> "Instagram")
                    @@ ("iptc:codedcharacterset" :> "utf8") @@ t9.v]
        ELSE t9

-----------------------------------------------------------------------------
(* Inputs *)

\* titles: missing, empty, "A", the mis-encoded form of U+00E9 (C3 A9 read
\* as latin-1), a lone E9 (not valid UTF-8), and U+20AC (not in latin-1)
Titles ==
    {None, Some(<<>>), Some(<<65>>), Some(<<195, 169>>), Some(<<233>>), Some(<<8364>>)}

UriHttps == <<"https:", "/", "/", "cdn", "/", "a.jpg">>

UriHttp == <<"http:", "/", "/", "cdn", "/", "c.jpg">>

UriA == <<"media", "/", "a.jpg">>

UriA2 == <<"media", "/", "other", "/", "a.jpg">>

UriBQuery == <<"media", "/", "b.jpg", "?", "x">>

\* uris of the children of a grouped post: missing, empty, remote, local
MediaUris == {None, Some(<<>>), Some(UriHttps), Some(UriA)}

Entry(uri, title, timestamp) ==
    Field("uri", uri) @@ Field("title", title) @@ Field("creation_timestamp", timestamp)

MediaEntries == {Entry(u, t, None) : u \in MediaUris, t \in Titles}

SeqsUpTo(S, n) == UNION {[1..m -> S] : m \in 0..n}

\* one category holding one entry: a grouped post with any parent title
\* and up to MaxMedia children, or a single item
GroupManifests ==
    {"ig_stories" :> <<Field("title", t) @@ ("media" :> ms)>> :
         t \in Titles, ms \in SeqsUpTo(MediaEntries, MaxMedia)}
    \cup {"ig_stories" :> <<e>> : e \in MediaEntries}

\* entries without titles, the single items with every kind of uri
PlainEntries ==
    {Entry(u, None, None) :
         u \in {Some(<<>>), Some(UriA), Some(UriBQuery), Some(UriHttp)}}
    \cup {Entry(Some(UriA2), None, Some(1))}
    \cup {"media" :> <<Entry(Some(UriA), None, None), Entry(Some(UriBQuery), None, None)>>,
          "media" :> <<Entry(Some(UriHttps), None, None), Entry(Some(UriA2), None, None)>>}

\* the entries of ts tagged with category c, in order
RECURSIVE EntriesOf(_, _)
EntriesOf(ts, c) ==
    IF ts = <<>> THEN <<>>
    ELSE IF Head(ts)[1] = c THEN <<Head(ts)[2]>> \o EntriesOf(Tail(ts), c)
    ELSE EntriesOf(Tail(ts), c)

Range(f) == {f[x] : x \in DOMAIN f}

\* up to MaxEntries entries spread over the categories
PlainManifests ==
    {[c \in {p[1] : p \in Range(ts)} |-> EntriesOf(ts, c)] :
         ts \in SeqsUpTo(Range(CONTENT_TYPE_KEYS) \X PlainEntries, MaxEntries)}

FlatManifests == GroupManifests \cup PlainManifests

\* a manifest path as given on the command line, and the export root that
\* process_json_file derives from it: two folders up, made absolute
JsonFile(owner) == <<owner, "/", "content", "/", "posts_1.json">>

BaseArchivePath(json_file) == PathAbsolute(PathParent(PathParent(Path(json_file))))

FlatBase == BaseArchivePath(JsonFile("export"))

ExifKeys ==
    {"latitude", "longitude", "iso", "lens_make", "lens_model", "make", "model",
     "scene_type", "aperture", "shutter_speed", "focal_length", "metering_mode"}

ExifDicts == {[k \in S |-> k] : S \in SUBSET ExifKeys}

TagFiles ==
    {ImageFile("ig_stories", Some(<<"/", "home", "/", "a.jpg">>), t, c, e) :
         t \in {None, Some(<<>>), Some(<<65>>)}, c \in {ClockStart, 1700000000},
         e \in ExifDicts}

-----------------------------------------------------------------------------
(* The flattener and the tag mapper applied to every input *)

RunIdle ==
    /\ args = <<>>
    /\ disk = EmptyDict
    /\ exiftool_installed = TRUE
    /\ argi = 1
    /\ pc = "done"
    /\ files = <<>>
    /\ fi = 1
    /\ fs = EmptyDict
    /\ dirs = {}
    /\ clock = ClockStart
    /\ log = <<>>
    /\ io = <<>>
    /\ outcome = <<>>
    /\ batchlen = <<>>

FlatIdle == parsed_json = EmptyDict /\ metadata = <<>> /\ fpc = "idle"

TagIdle == file = EmptyDict /\ tags = EmptyDict /\ tpc = "idle"

InitFlat ==
    /\ parsed_json \in FlatManifests
    /\ metadata = <<>>
    /\ fpc = "input"
    /\ RunIdle
    /\ TagIdle

\* files = get_metadata_for_content_types(data, base_archive_path)
Flatten ==
    /\ fpc = "input"
    /\ LET r == get_metadata_for_content_types(parsed_json, FlatBase, ClockStart)
       IN  /\ fpc' = IF r.raised THEN "raised" ELSE "returned"
           /\ metadata' = IF r.raised THEN <<>> ELSE r.metadata
    /\ UNCHANGED <<parsed_json, runVars, tagVars>>

SpecFlat == InitFlat /\ [][Flatten]_vars

InitTags ==
    /\ file \in TagFiles
    /\ tags = EmptyDict
    /\ tpc = "input"
    /\ RunIdle
    /\ FlatIdle

\* get_exif_tags(file)
MapTags ==
    /\ tpc = "input"
    /\ LET r == get_exif_tags(file)
       IN  /\ tpc' = IF r.ok THEN "returned" ELSE "raised"
           /\ tags' = IF r.ok THEN r.v ELSE EmptyDict
    /\ UNCHANGED <<file, runVars, flatVars>>

SpecTags == InitTags /\ [][MapTags]_vars

-----------------------------------------------------------------------------
(* The run: main, process_json_file and process_files *)

\* os.path.basename(s): what follows the last "/"
RECURSIVE Basename(_)
Basename(s) ==
    IF s = <<>> THEN <<>>
    ELSE IF s[Len(s)] = "/" THEN <<>>
    ELSE Append(Basename(SubSeq(s, 1, Len(s) - 1)), s[Len(s)])

\* result/{username}/{content_type}/{filename}{extension} under the
\* working directory, as <<username, content_type, file name>>
ResultPath(f, archive_path) ==
    <<Basename(PathStr(archive_path)), f.content_type, PathName(Path(f.path.v))>>

ArgPaths == {JsonFile("export"), JsonFile("old")}

Missing == [kind |-> "missing", data |-> EmptyDict]

BadJson == [kind |-> "badjson", data |-> EmptyDict]

Json(data) == [kind |-> "json", data |-> data]

ExifEntry(uri, timestamp, exif) ==
    Entry(uri, None, timestamp)
    @@ ("media_metadata" :> ("photo_metadata" :> ("exif_data" :> exif)))

\* the manifests of the runs over several paths: two stories with the
\* same file name, the later one first; a grouped post with a dropped
\* child and camera attributes; no category at all; a title that does
\* not redecode
RunManifests ==
    {"ig_stories" :> <<Entry(Some(UriA), None, Some(2)),
                       Entry(Some(UriA2), Some(<<65>>), Some(1))>>,
     "ig_archived_post_media" :>
         <<("title" :> <<195, 169>>)
           @@ ("media" :> <<ExifEntry(Some(UriBQuery), None, [k \in {"iso", "lens_make"} |-> k]),
                            Entry(Some(<<>>), Some(<<65>>), None)>>)>>,
     EmptyDict,
     "ig_profile_picture" :> <<Entry(Some(UriA), Some(<<233>>), None)>>}

RunFileStates == {Missing, BadJson} \cup {Json(m) : m \in RunManifests}

\* the manifests of a single batch: up to MaxBatch single items in two
\* categories, two uris with one file name and one with another, with and
\* without timestamps
BatchCategories == {"ig_archived_post_media", "ig_stories"}

BatchEntries ==
    {Entry(Some(u), None, t) : u \in {UriA, UriA2, UriBQuery}, t \in {None, Some(1)}}

BatchManifests ==
    {[c \in {p[1] : p \in Range(ts)} |-> EntriesOf(ts, c)] :
         ts \in SeqsUpTo(BatchCategories \X BatchEntries, MaxBatch)}

RunStart ==
    /\ argi = 1
    /\ pc = IF args = <<>> THEN "done" ELSE "prompt1"
    /\ files = <<>>
    /\ fi = 1
    /\ fs = EmptyDict
    /\ dirs = {}
    /\ clock = ClockStart
    /\ log = <<>>
    /\ io = <<>>
    /\ outcome = [m \in 1..Len(args) |-> IF m = 1 THEN "started" ELSE "pending"]
    /\ batchlen = [m \in 1..Len(args) |-> 0]
    /\ FlatIdle
    /\ TagIdle

Init ==
    /\ args \in SeqsUpTo(ArgPaths, MaxArgs)
    /\ disk \in [Range(args) -> RunFileStates]
    /\ exiftool_installed \in BOOLEAN
    /\ RunStart

InitBatch ==
    /\ args = <<JsonFile("export")>>
    /\ disk \in [Range(args) -> {Json(m) : m \in BatchManifests} \cup {Missing}]
    /\ exiftool_installed \in BOOLEAN
    /\ RunStart

\* the current argument, its export root, the current record and its
\* destination
json_file == args[argi]

base_archive_path == BaseArchivePath(json_file)

image_file == files[fi]

result_path == ResultPath(image_file, base_archive_path)

\* process_json_file returns (or an except clause of it has run): main
\* calls it for the next path, or the loop of main ends
Return(how) ==
    /\ argi' = argi + 1
    /\ pc' = IF argi = Len(args) THEN "done" ELSE "prompt1"
    /\ outcome' = [m \in 1..Len(args) |->
                      IF m = argi THEN how
                      ELSE IF m = argi + 1 THEN "started"
                      ELSE outcome[m]]

\* exit(): SystemExit leaves process_json_file and main
Exit(code, how) ==
    /\ pc' = code
    /\ outcome' = [outcome EXCEPT ![argi] = how]
    /\ UNCHANGED argi

\* an exception no except clause catches ends the run with a traceback
Uncaught(how) ==
    /\ pc' = "crashed"
    /\ outcome' = [outcome EXCEPT ![argi] = how]
    /\ UNCHANGED argi

\* a declined export root that only leaves process_json_file
ConfirmArchiveReturns ==
    /\ pc = "prompt1"
    /\ \E answer \in {"n", ""} :
           IF answer = "n"
           THEN Return("declined")
           ELSE pc' = "open" /\ UNCHANGED <<argi, outcome>>
    /\ UNCHANGED <<args, disk, exiftool_installed, files, fi, fs, dirs, clock,
                   log, io, batchlen, flatVars, tagVars>>

\* lines 208-212: the export root is shown and confirmed
ConfirmArchive ==
    /\ pc = "prompt1"
    /\ \E answer \in {"n", ""} :
           IF answer = "n"
           THEN Exit("exit0", "declined")
           ELSE pc' = "open" /\ UNCHANGED <<argi, outcome>>
    /\ UNCHANGED <<args, disk, exiftool_installed, files, fi, fs, dirs, clock,
                   log, io, batchlen, flatVars, tagVars>>

\* process_json_file without its except clauses: a read error leaves main
LoadManifestNoExcept ==
    /\ pc = "open"
    /\ LET found == disk[json_file]
           r == get_metadata_for_content_types(found.data, base_archive_path, clock)
       IN  IF found.kind \in {"missing", "badjson"}
           THEN /\ Uncaught(found.kind)
                /\ UNCHANGED <<files, clock, log>>
           ELSE IF r.raised
           THEN /\ Uncaught("crashed")
                /\ UNCHANGED <<files, clock, log>>
           ELSE /\ files' = display_operation_preview(r.metadata)
                /\ clock' = r.clock
                /\ log' = Append(log, <<"Files to process", argi>>)
                /\ pc' = "prompt2"
                /\ UNCHANGED <<argi, outcome>>
    /\ UNCHANGED <<args, disk, exiftool_installed, fi, fs, dirs, io, batchlen,
                   flatVars, tagVars>>

\* lines 213-216 with the except clauses of lines 221-224: the manifest is
\* opened and parsed, flattened and previewed
LoadManifest ==
    /\ pc = "open"
    /\ LET found == disk[json_file]
           r == get_metadata_for_content_types(found.data, base_archive_path, clock)
       IN  IF found.kind = "missing"
           THEN /\ log' = Append(log, <<"Error: JSON file not found.", argi>>)
                /\ Return("missing")
                /\ UNCHANGED <<files, clock>>
           ELSE IF found.kind = "badjson"
           THEN /\ log' = Append(log, <<"Error: Invalid JSON format.", argi>>)
                /\ Return("badjson")
                /\ UNCHANGED <<files, clock>>
           ELSE IF r.raised
           THEN /\ Uncaught("crashed")
                /\ UNCHANGED <<files, clock, log>>
           ELSE /\ files' = display_operation_preview(r.metadata)
                /\ clock' = r.clock
                /\ log' = Append(log, <<"Files to process", argi>>)
                /\ pc' = "prompt2"
                /\ UNCHANGED <<argi, outcome>>
    /\ UNCHANGED <<args, disk, exiftool_installed, fi, fs, dirs, io, batchlen,
                   flatVars, tagVars>>

\* lines 217-219: the file list is confirmed
ConfirmFiles ==
    /\ pc = "prompt2"
    /\ \E answer \in {"n", ""} :
           IF answer = "n"
           THEN Exit("exit0", "declined")
           ELSE pc' = "which" /\ UNCHANGED <<argi, outcome>>
    /\ UNCHANGED <<args, disk, exiftool_installed, files, fi, fs, dirs, clock,
                   log, io, batchlen, flatVars, tagVars>>

\* lines 173-180: the metadata writer is looked up and the loop is entered
StartBatch ==
    /\ pc = "which"
    /\ IF ~exiftool_installed
       THEN /\ log' = Append(log, <<"Error: exiftool not found in PATH.", argi>>)
            /\ Exit("exit1", "no_exiftool")
            /\ UNCHANGED <<fi, batchlen>>
       ELSE /\ batchlen' = [batchlen EXCEPT ![argi] = Len(files)]
            /\ fi' = 1
            /\ log' = log
            /\ IF files = <<>>
               THEN Return("completed")
               ELSE pc' = "copy" /\ UNCHANGED <<argi, outcome>>
    /\ UNCHANGED <<args, disk, exiftool_installed, files, fs, dirs, clock, io,
                   flatVars, tagVars>>

IoEvent(op) == [op |-> op, arg |-> argi, n |-> fi, dest |-> result_path]

\* lines 181-191: the destination directory is made and the source is
\* copied over the destination.  The source may be a file, may not exist
\* (FileNotFoundError, which the except clause of line 221 catches), or
\* may be a directory or unreadable (another OSError, which nothing
\* catches).
CopyFile ==
    /\ pc = "copy"
    /\ dirs' = dirs \cup {<<result_path[1], result_path[2]>>}
    /\ \E source \in {"file", "absent", "unreadable"} :
           IF source = "file"
           THEN /\ fs' = (result_path :> [src |-> image_file.path.v, tags |-> None,
                                          mtime |-> clock, atime |-> clock]) @@ fs
                /\ io' = Append(io, IoEvent("copy"))
                /\ pc' = "set_tags"
                /\ UNCHANGED <<argi, outcome, log>>
           ELSE IF source = "absent"
           THEN /\ io' = Append(io, IoEvent("copy_failed"))
                /\ log' = Append(log, <<"Error: JSON file not found.", argi>>)
                /\ Return("copy_failed")
                /\ UNCHANGED fs
           ELSE /\ io' = Append(io, IoEvent("copy_failed"))
                /\ Uncaught("crashed")
                /\ UNCHANGED <<fs, log>>
    /\ UNCHANGED <<args, disk, exiftool_installed, files, fi, clock, batchlen,
                   flatVars, tagVars>>

\* os.utime moved into the try block: a failed write skips it
SetTagsSkipsTimes ==
    /\ pc = "set_tags"
    /\ LET t == get_exif_tags(image_file)
       IN  \E written \in (IF t.ok THEN BOOLEAN ELSE {FALSE}) :
               IF written
               THEN /\ fs' = [fs EXCEPT ![result_path].tags = Some(t.v),
                                        ![result_path].mtime = clock,
                                        ![result_path].atime = clock]
                    /\ io' = Append(io, IoEvent("set_tags"))
                    /\ log' = log
                    /\ pc' = "utime"
               ELSE /\ io' = Append(io, IoEvent("set_tags_failed"))
                    /\ log' = Append(log, <<"Exiftool quit while processing", argi, fi>>)
                    /\ fs' = fs
                    /\ pc' = "advance"
    /\ UNCHANGED <<args, disk, exiftool_installed, argi, files, fi, dirs, clock,
                   outcome, batchlen, flatVars, tagVars>>

\* lines 192-197: the tags are computed and handed to the metadata
\* writer; whatever is raised, by get_exif_tags or by the writer, is
\* logged and dropped
SetTags ==
    /\ pc = "set_tags"
    /\ LET t == get_exif_tags(image_file)
       IN  \E written \in (IF t.ok THEN BOOLEAN ELSE {FALSE}) :
               IF written
               THEN /\ fs' = [fs EXCEPT ![result_path].tags = Some(t.v),
                                        ![result_path].mtime = clock,
                                        ![result_path].atime = clock]
                    /\ io' = Append(io, IoEvent("set_tags"))
                    /\ log' = log
               ELSE /\ io' = Append(io, IoEvent("set_tags_failed"))
                    /\ log' = Append(log, <<"Exiftool quit while processing", argi, fi>>)
                    /\ fs' = fs
    /\ pc' = "utime"
    /\ UNCHANGED <<args, disk, exiftool_installed, argi, files, fi, dirs, clock,
                   outcome, batchlen, flatVars, tagVars>>

\* lines 198-201: os.utime sets both times of the destination
SetTimes ==
    /\ pc = "utime"
    /\ fs' = [fs EXCEPT ![result_path].mtime = image_file.created_at,
                        ![result_path].atime = image_file.created_at]
    /\ io' = Append(io, IoEvent("utime"))
    /\ pc' = "advance"
    /\ UNCHANGED <<args, disk, exiftool_installed, argi, files, fi, dirs, clock,
                   log, outcome, batchlen, flatVars, tagVars>>

\* line 202 and the loop of line 180: the next record, or the end of
\* process_files and of process_json_file
Advance ==
    /\ pc = "advance"
    /\ fi' = fi + 1
    /\ IF fi = Len(files)
       THEN Return("completed")
       ELSE pc' = "copy" /\ UNCHANGED <<argi, outcome>>
    /\ UNCHANGED <<args, disk, exiftool_installed, files, fs, dirs, clock, log,
                   io, batchlen, flatVars, tagVars>>

Next ==
    \/ ConfirmArchive
    \/ LoadManifest
    \/ ConfirmFiles
    \/ StartBatch
    \/ CopyFile
    \/ SetTags
    \/ SetTimes
    \/ Advance

Spec == Init /\ [][Next]_vars

SpecBatch == InitBatch /\ [][Next]_vars

-----------------------------------------------------------------------------
(* Claims about the run *)

Events(m, n, ops) == {k \in 1..Len(io) : io[k].arg = m /\ io[k].n = n /\ io[k].op \in ops}

BatchOver(m) == outcome[m] \in {"completed", "copy_failed", "crashed"} /\ batchlen[m] > 0

\* C1: a record whose copy or metadata write fails does not abort the
\* batch: every record after it is copied and given its timestamp, and the
\* batch runs to the end of the collection.
CexC1 ==
    \A m \in 1..Len(args) :
        BatchOver(m) =>
            \A i \in 1..batchlen[m] :
                Events(m, i, {"copy_failed", "set_tags_failed"}) # {} =>
                    \A n \in (i + 1)..batchlen[m] :
                        /\ Events(m, n, {"copy"}) # {}
                        /\ Events(m, n, {"utime"}) # {}

\* C2, amended: when a prompt of a manifest is declined the run halts, and
\* nothing has been or will be written for that manifest or a later one;
\* what was written for earlier manifests stays.
ThmC2 ==
    \A m \in 1..Len(args) :
        outcome[m] = "declined" =>
            /\ pc = "exit0"
            /\ ~ENABLED Next
            /\ argi = m
            /\ batchlen[m] = 0
            /\ \A k \in 1..Len(io) : io[k].arg < m
            /\ \A j \in (m + 1)..Len(args) : outcome[j] = "pending"

\* the file list of the second manifest is declined after the files of
\* the first have been written
WitC2 ==
    /\ Len(args) = 2
    /\ outcome[2] = "declined"
    /\ files # <<>>
    /\ log[Len(log)] = <<"Files to process", 2>>
    /\ outcome[1] = "completed"
    /\ DOMAIN fs # {}

\* C2: when a prompt of any manifest is declined, no file has been copied,
\* tagged or re-timestamped under result/ at any point of the run.
CexC2 ==
    (\E m \in 1..Len(args) : outcome[m] = "declined") =>
        /\ DOMAIN fs = {}
        /\ \A k \in 1..Len(io) : io[k].op \notin {"copy", "set_tags", "utime"}

ReadErrors == {"missing", "badjson"}

ReadErrorMessage(how) ==
    IF how = "missing" THEN "Error: JSON file not found." ELSE "Error: Invalid JSON format."

\* C6: a manifest that cannot be read is reported, only it is skipped,
\* nothing is written for it, and main goes on to the remaining paths in
\* order.
ThmC6 ==
    /\ \A m \in 1..Len(args) :
           outcome[m] \in ReadErrors =>
               /\ disk[args[m]].kind = outcome[m]
               /\ \E k \in 1..Len(log) : log[k] = <<ReadErrorMessage(outcome[m]), m>>
               /\ \A k \in 1..Len(io) : io[k].arg # m
               /\ batchlen[m] = 0
               /\ argi > m
               /\ m < Len(args) => outcome[m + 1] # "pending"
               /\ m = Len(args) => pc = "done"
    /\ \A m \in 1..Len(args) :
           outcome[m] # "pending" =>
               \A j \in 1..(m - 1) : outcome[j] \notin {"pending", "started"}

\* the first path could not be read and the second was processed to the end
WitC6 ==
    /\ Len(args) = 2
    /\ outcome[1] \in ReadErrors
    /\ outcome[2] = "completed"
    /\ \E k \in 1..Len(io) : io[k].arg = 2 /\ io[k].op = "utime"

\* C8: the copy, the metadata write and the timestamp of a record happen
\* in that order and before the copy of the next record; after a failed
\* metadata write the failure is logged, the copy is kept and its two
\* times are set to created_at before the next record.
ThmC8 ==
    /\ \A k \in 1..Len(io) :
           LET e == io[k]
               same(ops) ==
                   /\ k > 1
                   /\ io[k - 1].op \in ops
                   /\ io[k - 1].arg = e.arg /\ io[k - 1].n = e.n
           IN  /\ e.op \in {"copy", "copy_failed"} =>
                   \/ e.n = 1 /\ (k = 1 \/ io[k - 1].arg < e.arg)
                   \/ /\ e.n > 1
                      /\ io[k - 1].op = "utime"
                      /\ io[k - 1].arg = e.arg /\ io[k - 1].n = e.n - 1
               /\ e.op \in {"set_tags", "set_tags_failed"} => same({"copy"})
               /\ e.op = "utime" => same({"set_tags", "set_tags_failed"})
    /\ pc \in {"copy", "advance"} /\ io # <<>> /\ io[Len(io)].arg = argi
           => io[Len(io)].op = "utime"
    /\ pc = "advance" =>
           /\ result_path \in DOMAIN fs
           /\ fs[result_path].src = image_file.path.v
           /\ fs[result_path].mtime = image_file.created_at
           /\ fs[result_path].atime = image_file.created_at
           /\ io[Len(io) - 1].op = "set_tags_failed" =>
                  /\ fs[result_path].tags = None
                  /\ log[Len(log)] = <<"Exiftool quit while processing", argi, fi>>

\* the second record of a batch has its times set after its metadata
\* write failed
WitC8 ==
    /\ pc = "advance"
    /\ fi = 2
    /\ io[Len(io) - 1].op = "set_tags_failed"
    /\ fs[result_path].mtime = image_file.created_at

\* the place of the i-th record of list after a stable sort by created_at
SortedPlace(list, i) ==
    Cardinality({j \in 1..Len(list) :
                     \/ list[j].created_at < list[i].created_at
                     \/ list[j].created_at = list[i].created_at /\ j <= i})

\* what the Flattener returned for the manifest of a single batch
Flattened ==
    get_metadata_for_content_types(disk[args[1]].data, BaseArchivePath(args[1]),
                                   ClockStart).metadata

\* the last record of the batch that goes to destination d
LastFor(d) ==
    CHOOSE n \in 1..Len(files) :
        /\ ResultPath(files[n], BaseArchivePath(args[1])) = d
        /\ \A k \in (n + 1)..Len(files) : ResultPath(files[k], BaseArchivePath(args[1])) # d

\* the destination C10 describes: the name of the export's folder, the
\* category, and what follows the last "/" of the source path
ClaimedDest(f) == <<<<args[1][1]>>, f.content_type, Basename(f.path.v)>>

\* C10: the destination depends only on the owner name, the category and
\* the file name; after a completed batch there is one file per distinct
\* (category, file name) pair, with the source and the times of the record
\* of that pair that comes last in the stable created_at order the preview
\* left the list in.
ThmC10 ==
    outcome = <<"completed">> =>
        /\ Len(files) = Len(Flattened)
        /\ \A i \in 1..Len(Flattened) : files[SortedPlace(Flattened, i)] = Flattened[i]
        /\ \A n \in 1..Len(files) :
               ResultPath(files[n], BaseArchivePath(args[1])) = ClaimedDest(files[n])
        /\ DOMAIN fs = {ClaimedDest(files[n]) : n \in 1..Len(files)}
        /\ \A d \in DOMAIN fs :
               /\ fs[d].src = files[LastFor(d)].path.v
               /\ fs[d].mtime = files[LastFor(d)].created_at
               /\ fs[d].atime = files[LastFor(d)].created_at

\* two records of one category and file name, the later one first in the
\* manifest: the file of the one the Flattener listed first survives
WitC10 ==
    /\ outcome = <<"completed">>
    /\ Len(files) = 2
    /\ files # Flattened
    /\ Cardinality(DOMAIN fs) = 1
    /\ files[1].path # files[2].path
    /\ \A d \in DOMAIN fs : fs[d].src = Flattened[1].path.v

-----------------------------------------------------------------------------
(* Claims about the flattener, stated over the manifest it was given *)

\* the position of a category in the fixed category list
KeyIndex(c) == CHOOSE k \in 1..Len(CONTENT_TYPE_KEYS) : CONTENT_TYPE_KEYS[k] = c

\* the items of a manifest, each named by <<category index, entry index,
\* child index>>, the child index 0 for a single item
Leaves(json) ==
    UNION {UNION {IF "media" \in DOMAIN json[c][i]
                  THEN {<<KeyIndex(c), i, j>> : j \in 1..Len(json[c][i]["media"])}
                  ELSE {<<KeyIndex(c), i, 0>>} : i \in 1..Len(json[c])} :
           c \in DOMAIN json \cap Range(CONTENT_TYPE_KEYS)}

LeafParent(json, o) == json[CONTENT_TYPE_KEYS[o[1]]][o[2]]

LeafEntry(json, o) ==
    IF o[3] = 0 THEN LeafParent(json, o) ELSE LeafParent(json, o)["media"][o[3]]

\* the uri is missing, empty or contains the remote-URL prefix "https://"
BadUri(entry) ==
    \/ "uri" \notin DOMAIN entry
    \/ entry["uri"] = <<>>
    \/ \E i \in 1..(Len(entry["uri"]) - 2) :
           <<entry["uri"][i], entry["uri"][i + 1], entry["uri"][i + 2]>> = HttpsPrefix

Kept(json) == {o \in Leaves(json) : ~BadUri(LeafEntry(json, o))}

\* input order: category list order, then entry order, then child order
Before(o1, o2) ==
    \/ o1[1] < o2[1]
    \/ o1[1] = o2[1] /\ o1[2] < o2[2]
    \/ o1[1] = o2[1] /\ o1[2] = o2[2] /\ o1[3] < o2[3]

Rank(json, o) == Cardinality({o2 \in Kept(json) : Before(o2, o)}) + 1

Corrected(t) == IF EncodeDecode(t).ok THEN EncodeDecode(t).v ELSE t

\* the titles C4 allows for an item; both readings of an empty title
\* (a title that is there, a title that is not) are allowed
ClaimedTitles(json, o) ==
    LET own == Get(LeafEntry(json, o), "title")
        parent == Get(LeafParent(json, o), "title")
    IN  IF own.some /\ own.v # <<>> THEN {Some(Corrected(own.v))}
        ELSE IF o[3] > 0 /\ parent.some /\ parent.v # <<>>
             THEN {Some(Corrected(parent.v))}
        ELSE {None, Some(<<>>)}

\* C4: the title of a kept child is its own corrected title when it has a
\* non-empty one, else the parent's corrected title when the parent has
\* one, else absent; the title of a single item is its own corrected title
\* or absent.
CexC4 ==
    fpc = "returned" =>
        /\ Len(metadata) = Cardinality(Kept(parsed_json))
        /\ \A o \in Kept(parsed_json) :
               metadata[Rank(parsed_json, o)].title \in ClaimedTitles(parsed_json, o)

\* C5: the records come in the order of the category list, within a
\* category in the order of the entries, the children of a grouped post in
\* their order at the place of the post; dropped items leave the rest in
\* order.
ThmC5 ==
    fpc = "returned" =>
        /\ Len(metadata) = Cardinality(Kept(parsed_json))
        /\ \A o \in Kept(parsed_json) :
               LET r == metadata[Rank(parsed_json, o)]
                   e == LeafEntry(parsed_json, o)
               IN  /\ r.content_type = CONTENT_TYPE_KEYS[o[1]]
                   /\ r.path = Some(SplitFirst(PathStr(PathJoin(FlatBase, e["uri"])), "?"))
                   /\ HasTimestamp(e) => r.created_at = e["creation_timestamp"]
        /\ \A n \in 1..(Len(metadata) - 1) :
               KeyIndex(metadata[n].content_type) <= KeyIndex(metadata[n + 1].content_type)

\* records of two categories, of which a later entry's record differs from
\* an earlier one's, with a dropped item among them
WitC5 ==
    /\ fpc = "returned"
    /\ Len(metadata) >= 2
    /\ metadata[1].content_type # metadata[Len(metadata)].content_type
    /\ metadata[1].path # metadata[Len(metadata)].path
    /\ Kept(parsed_json) # Leaves(parsed_json)

\* the kept items whose own non-empty title does not redecode
Undecodable(json) ==
    {o \in Kept(json) :
         LET own == Get(LeafEntry(json, o), "title")
         IN  own.some /\ own.v # <<>> /\ ~EncodeDecode(own.v).ok}

\* C9: the flattening never fails on a title: a title whose bytes do not
\* redecode is kept as the raw text, its record is produced and the pass
\* goes on.
CexC9 ==
    (fpc # "input" /\ Undecodable(parsed_json) # {}) =>
        /\ fpc = "returned"
        /\ Len(metadata) = Cardinality(Kept(parsed_json))
        /\ \A o \in Undecodable(parsed_json) :
               metadata[Rank(parsed_json, o)].title
                   = Get(LeafEntry(parsed_json, o), "title")

-----------------------------------------------------------------------------
(* Claims about the tag mapper *)

\* the optional tags and the attribute key each one stands for
OptionalTags ==
    {<<"ISO", "iso">>, <<"LensMake", "lens_make">>, <<"LensModel", "lens_model">>,
     <<"SceneType", "scene_type">>, <<"ApertureValue", "aperture">>,
     <<"ShutterSpeedValue", "shutter_speed">>, <<"FocalLength", "focal_length">>,
     <<"MeteringMode", "metering_mode">>}

\* C7: for every subset of the optional attribute keys the Tag Mapper
\* returns a mapping without raising, and each optional tag is in the
\* mapping exactly when its own attribute key is present.
CexC7 ==
    tpc # "input" =>
        /\ tpc = "returned"
        /\ \A p \in OptionalTags : p[1] \in DOMAIN tags <=> p[2] \in DOMAIN file.exif_data

====
